---- MODULE Spec2Model ----
(***************************************************************************)
(* Model of golf.py: the capture/replay loop of main() and run_replay(),   *)
(* and the voice_listener() thread that shares shared_state with it.       *)
(***************************************************************************)
EXTENDS Integers, Sequences, FiniteSets, TLC

VARIABLES
    \* ---- shared_state (golf.py 61-68) ----
    start_record,            \* threading.Event
    repeat_replay,           \* threading.Event
    exit_app,                \* threading.Event
    toggle_info,             \* threading.Event
    replay_speed_factor,     \* the float in the one-element list
    last_heard_command,      \* the string in the one-element list
    \* ---- main() and run_replay() locals ----
    pc,                      \* position of the controller thread
    cap,                     \* the capture device: "closed", "open", "released"
    window,                  \* the display window: "none", "open", "destroyed"
    frame,                   \* main()'s frame (last listening-phase read)
    heap,                    \* the deque objects, by reference
    current_capture_buffer,  \* reference into heap (0: unbound)
    last_capture_buffer,     \* reference into heap (0: None)
    swing_count,
    show_info,
    elapsed,                 \* time.time() - start_time, in seconds
    replay_list,             \* list(capture_buffer) being iterated by run_replay
    cursor,                  \* number of frames of replay_list already presented
    caller,                  \* call site of run_replay: "capture" or "repeat"
    ret,                     \* value returned by run_replay
    display,                 \* what cv2.imshow last put on the window
    adjusted_delay,          \* run_replay's delay of the frame on the window
    \* ---- voice_listener() locals ----
    lpc,                     \* position of the listener thread
    text                     \* the recognized utterance being dispatched

vars == <<start_record, repeat_replay, exit_app, toggle_info,
          replay_speed_factor, last_heard_command, pc, cap, window,
          frame, heap, current_capture_buffer, last_capture_buffer,
          swing_count, show_info, elapsed, replay_list, cursor, caller, ret,
          display, adjusted_delay, lpc, text>>

ctlVars == <<pc, cap, window, frame, heap, current_capture_buffer,
             last_capture_buffer, swing_count, show_info, elapsed,
             replay_list, cursor, caller, ret, display, adjusted_delay>>

lsnVars == <<lpc, text, last_heard_command>>

latches == <<start_record, repeat_replay, exit_app, toggle_info>>

-----------------------------------------------------------------------------
(* Bounds of the model *)

\* seconds between two frames delivered by the capture device
FramePeriod == 1
\* the user asks for at most MaxSwings captures
MaxSwings == 2
\* net speed commands away from the initial factor, full controller model
MainSpeedSteps == 1
\* net speed commands away from the initial factor, speed-only model
MaxSpeedSteps == 6
\* words per utterance in the dispatch-only model
MaxWords == 2

-----------------------------------------------------------------------------
(* Configuration (golf.py 43-52) *)

REPLAY_DURATION_SECONDS == 4

TRIGGER_WORD == <<"o", "k", "a", "y">>
REPEAT_TRIGGER_WORD == <<"o", "t", "r", "a">>
EXIT_WORD == <<"s", "a", "l", "i", "r">>
SPEED_UP_WORD == <<"r", "a", "p", "i", "d", "o">>
SPEED_DOWN_WORD == <<"l", "e", "n", "t", "o">>
INFO_TOGGLE_WORD == <<"m", "e", "n", "u">>

-----------------------------------------------------------------------------
(* IEEE-754 binary64 arithmetic for replay_speed_factor.                    *)
(* A positive normal double is <<hi, lo, e>>: the 53-bit significand        *)
(* hi * 2^27 + lo (2^25 <= hi < 2^26, 0 <= lo < 2^27) times 2^e.            *)
(* 1.25 is exactly 5/4, so x * 1.25 is x * 5 / 4 and x / 1.25 is x * 4 / 5, *)
(* each rounded once to nearest, ties to even.                              *)

Limb == 134217728       \* 2^27
HiMin == 33554432       \* 2^25
HiMax == 67108864       \* 2^26

Pow2(n) == IF n = 0 THEN 1 ELSE IF n = 1 THEN 2 ELSE IF n = 2 THEN 4 ELSE 8

\* hi:lo (hi may exceed 26 bits) shifted right by s bits and rounded to
\* nearest even; sticky says that nonzero bits lie below lo. The result is
\* renormalised to 53 bits, the exponent e counting the shift.
RoundShift(hi, lo, s, sticky, e) ==
    LET dropped == lo % Pow2(s)
        half    == Pow2(s - 1)
        qlo     == (lo \div Pow2(s)) + (hi % Pow2(s)) * (Limb \div Pow2(s))
        qhi     == hi \div Pow2(s)
        up      == \/ dropped > half
                   \/ dropped = half /\ sticky
                   \/ dropped = half /\ ~sticky /\ qlo % 2 = 1
        rlo     == IF up THEN (qlo + 1) % Limb ELSE qlo
        rhi     == IF up /\ qlo + 1 = Limb THEN qhi + 1 ELSE qhi
    IN  IF rhi = HiMax THEN <<HiMin, 0, e + s + 1>> ELSE <<rhi, rlo, e + s>>

\* x * 1.25 (golf.py 152)
FMul125(x) ==
    LET lo5 == x[2] * 5
        plo == lo5 % Limb
        phi == x[1] * 5 + (lo5 \div Limb)
        s   == IF phi < 4 * HiMax THEN 2 ELSE 3
    IN  RoundShift(phi, plo, s, FALSE, x[3] - 2)

\* x * 0.75
FMul075(x) ==
    LET lo3 == x[2] * 3
        plo == lo3 % Limb
        phi == x[1] * 3 + (lo3 \div Limb)
        s   == IF phi < 2 * HiMax THEN 1 ELSE 2
    IN  RoundShift(phi, plo, s, FALSE, x[3] - 2)

\* x / 1.25 (golf.py 157)
FDiv125(x) ==
    LET nhi == x[1] * 16 + (x[2] \div (Limb \div 16))
        nlo == (x[2] % (Limb \div 16)) * 16
        qhi == nhi \div 5
        t   == (nhi % 5) * Limb + nlo
        qlo == t \div 5
        r   == t % 5
        s   == IF qhi < 2 * HiMax THEN 1 ELSE 2
    IN  RoundShift(qhi, qlo, s, r # 0, x[3] - 2)

\* 2.0 (golf.py 66)
InitialSpeedFactor == <<HiMin, 0, -51>>

\* a <= b for positive normal doubles
FLeq(a, b) ==
    \/ a[3] < b[3]
    \/ a[3] = b[3] /\ a[1] < b[1]
    \/ a[3] = b[3] /\ a[1] = b[1] /\ a[2] <= b[2]

RECURSIVE Slower(_, _)
\* x after n SPEED_DOWN commands
Slower(x, n) == IF n = 0 THEN x ELSE Slower(FMul125(x), n - 1)

RECURSIVE Faster(_, _)
\* x after n SPEED_UP commands
Faster(x, n) == IF n = 0 THEN x ELSE Faster(FDiv125(x), n - 1)

\* the factors the model lets the user reach with `steps` net speed commands
SpeedInRange(x, steps) ==
    /\ FLeq(Faster(InitialSpeedFactor, steps), x)
    /\ FLeq(x, Slower(InitialSpeedFactor, steps))

-----------------------------------------------------------------------------
(* Text. A string is a sequence of characters; an accented or upper-case   *)
(* character is written with a mark after the letter: "a'" is a-acute,     *)
(* "O^" is capital O.                                                      *)

\* str.replace(a, b) for one-character a and b
Replace(t, a, b) == [i \in 1..Len(t) |-> IF t[i] = a THEN b ELSE t[i]]

\* str.lower()
Lower(t) ==
    [i \in 1..Len(t) |->
        IF t[i] = "O^" THEN "o" ELSE t[i]]

\* needle in haystack
IsSubstring(needle, haystack) ==
    \E i \in 1..(Len(haystack) - Len(needle) + 1) :
        SubSeq(haystack, i, i + Len(needle) - 1) = needle

\* golf.py 129
Sanitize(t) ==
    Replace(Replace(Replace(Replace(Replace(t, "a'", "a"), "e'", "e"),
                            "i'", "i"), "o'", "o"), "u'", "u")

\* golf.py 133
Normalize(t) == Replace(Replace(Lower(t), "a'", "a"), "u'", "u")

\* the chain with the record and repeat branches in the other order
DispatchRepeatFirst(text_lower) ==
    IF IsSubstring(EXIT_WORD, text_lower) THEN "EXIT"
    ELSE IF IsSubstring(REPEAT_TRIGGER_WORD, text_lower) THEN "REPEAT_REPLAY"
    ELSE IF IsSubstring(TRIGGER_WORD, text_lower) THEN "START_RECORD"
    ELSE IF IsSubstring(INFO_TOGGLE_WORD, text_lower) THEN "TOGGLE_INFO"
    ELSE IF IsSubstring(SPEED_DOWN_WORD, text_lower) THEN "SPEED_DOWN"
    ELSE IF IsSubstring(SPEED_UP_WORD, text_lower) THEN "SPEED_UP"
    ELSE "NONE"

\* the if/elif chain of golf.py 135-159: the branch taken for text_lower
Dispatch(text_lower) ==
    IF IsSubstring(EXIT_WORD, text_lower) THEN "EXIT"
    ELSE IF IsSubstring(TRIGGER_WORD, text_lower) THEN "START_RECORD"
    ELSE IF IsSubstring(REPEAT_TRIGGER_WORD, text_lower) THEN "REPEAT_REPLAY"
    ELSE IF IsSubstring(INFO_TOGGLE_WORD, text_lower) THEN "TOGGLE_INFO"
    ELSE IF IsSubstring(SPEED_DOWN_WORD, text_lower) THEN "SPEED_DOWN"
    ELSE IF IsSubstring(SPEED_UP_WORD, text_lower) THEN "SPEED_UP"
    ELSE "NONE"

\* what the recognizer can deliver, one word at a time
Words ==
    { <<"s", "a", "l", "i", "r">>,
      <<"o", "k", "a", "y">>,
      <<"o", "t", "r", "a">>,
      <<"m", "e", "n", "u">>,
      <<"l", "e", "n", "t", "o">>,
      <<"r", "a'", "p", "i", "d", "o">>,
      <<"h", "o", "l", "a">> }

\* further words for the dispatch-only model: upper case, a folded and an
\* unfolded accent, a trigger phrase inside a longer word
MoreWords ==
    { <<"O^", "k", "a", "y">>,
      <<"m", "e", "n", "u'">>,
      <<"l", "e'", "n", "t", "o">>,
      <<"n", "o", "s", "o", "t", "r", "a", "s">> }

RECURSIVE Phrases(_, _)
\* the utterances of at most n words of W, joined by blanks
Phrases(W, n) ==
    IF n = 0 THEN { <<>> }
    ELSE LET shorter == Phrases(W, n - 1)
         IN  shorter \cup W
                \cup { p \o <<" ">> \o w : p \in shorter \ { <<>> }, w \in W }

\* the utterances of the dispatch-only model
Utterances == Phrases(Words \cup MoreWords, MaxWords)
\* the utterances of the other models: each command word, spoken alone
CommandWords == { w \in Words : Dispatch(Normalize(w)) # "NONE" }

-----------------------------------------------------------------------------
(* The state after the module is loaded and before main() runs *)

NoFrame == -1
\* adjusted_delay outside the wait of golf.py 216
NoDelay == <<>>
Blank == [kind |-> "none", frame |-> NoFrame]

Init ==
    /\ start_record = FALSE
    /\ repeat_replay = FALSE
    /\ exit_app = FALSE
    /\ toggle_info = FALSE
    /\ replay_speed_factor = InitialSpeedFactor
    /\ last_heard_command = <<>>
    /\ pc = "start"
    /\ cap = "closed"
    /\ window = "none"
    /\ frame = NoFrame
    /\ heap = [r \in 1..2 |-> <<>>]
    /\ current_capture_buffer = 0
    /\ last_capture_buffer = 0
    /\ swing_count = 0
    /\ show_info = FALSE
    /\ elapsed = 0
    /\ replay_list = <<>>
    /\ cursor = 0
    /\ caller = "none"
    /\ ret = "none"
    /\ display = Blank
    /\ adjusted_delay = NoDelay
    /\ lpc = "unstarted"
    /\ text = <<>>

\* the controller state of spec.md 4.1, read off the position of main()
Mode ==
    CASE pc \in {"start", "open"} -> "STARTING"
      [] pc \in {"loop_test", "toggle", "check_start", "check_repeat",
                 "clear_start", "clear_repeat", "draw"} -> "LISTENING"
      [] pc \in {"capture", "cap_done"} -> "CAPTURING"
      [] pc \in {"rp_clear", "rp_check_start", "rp_check_exit", "rp_show",
                 "rp_key", "rp_return"} -> "REPLAYING"
      [] OTHER -> "EXITED"

\* what cap.read() delivers: the picture of the swing in front of the camera
Scene == swing_count

\* capture duration times source frame rate: the frames of a capture that
\* runs to its deadline
NominalFrames == REPLAY_DURATION_SECONDS \div FramePeriod

\* `is not None` in place of the truth value
IsNotNone(ref) == ref # 0

\* truth value of a deque or None (golf.py 310, 318)
Truthy(ref) == ref # 0 /\ Len(heap[ref]) > 0

\* the previous deque, emptied, in place of a fresh one
ClearedDeque == IF last_capture_buffer # 0 THEN last_capture_buffer ELSE 1

\* collections.deque(): a fresh object, distinct from every live one
NewDeque == CHOOSE r \in 1..2 : r # last_capture_buffer

-----------------------------------------------------------------------------
(* The controller thread: main() *)

\* golf.py 225-226
StartListener ==
    /\ pc = "start"
    /\ UNCHANGED adjusted_delay
    /\ lpc' = "init"
    /\ pc' = "open"
    /\ UNCHANGED <<latches, replay_speed_factor, last_heard_command, text,
                   cap, window, frame, heap, current_capture_buffer,
                   last_capture_buffer, swing_count, show_info, elapsed,
                   replay_list, cursor, caller, ret, display>>

\* golf.py 228-264
OpenCamera ==
    /\ pc = "open"
    /\ UNCHANGED adjusted_delay
    /\ \/ /\ cap' = "open"
          /\ window' = "open"
          /\ last_capture_buffer' = 0
          /\ swing_count' = 0
          /\ show_info' = FALSE
          /\ pc' = "loop_test"
       \/ /\ pc' = "done"
          /\ UNCHANGED <<cap, window, last_capture_buffer, swing_count,
                         show_info>>
    /\ UNCHANGED <<latches, replay_speed_factor, lsnVars, frame, heap,
                   current_capture_buffer, elapsed, replay_list, cursor,
                   caller, ret, display>>

\* the loop with `return` in place of `break` at the failed read
LoopTestReturns ==
    /\ pc = "loop_test"
    /\ UNCHANGED adjusted_delay
    /\ IF exit_app
       THEN pc' = "cleanup" /\ UNCHANGED frame
       ELSE \/ /\ frame' = Scene
               /\ pc' = "toggle"
            \/ /\ pc' = "done"
               /\ UNCHANGED frame
    /\ UNCHANGED <<latches, replay_speed_factor, lsnVars, cap, window, heap,
                   current_capture_buffer, last_capture_buffer, swing_count,
                   show_info, elapsed, replay_list, cursor, caller, ret,
                   display>>

\* golf.py 266-273: the loop test, then the device delivers a frame or fails
LoopTest ==
    /\ pc = "loop_test"
    /\ UNCHANGED adjusted_delay
    /\ IF exit_app
       THEN pc' = "cleanup" /\ UNCHANGED frame
       ELSE \/ /\ frame' = Scene
               /\ pc' = "toggle"
            \/ /\ pc' = "cleanup"
               /\ UNCHANGED frame
    /\ UNCHANGED <<latches, replay_speed_factor, lsnVars, cap, window, heap,
                   current_capture_buffer, last_capture_buffer, swing_count,
                   show_info, elapsed, replay_list, cursor, caller, ret,
                   display>>

\* golf.py 276-278
HandleToggle ==
    /\ pc = "toggle"
    /\ UNCHANGED adjusted_delay
    /\ show_info' = IF toggle_info THEN ~show_info ELSE show_info
    /\ toggle_info' = FALSE
    /\ pc' = "check_start"
    /\ UNCHANGED <<start_record, repeat_replay, exit_app, replay_speed_factor,
                   lsnVars, cap, window, frame, heap,
                   current_capture_buffer, last_capture_buffer, swing_count,
                   elapsed, replay_list, cursor, caller, ret, display>>

\* golf.py 281-286
CheckStart ==
    /\ pc = "check_start"
    /\ UNCHANGED adjusted_delay
    /\ IF start_record
       THEN /\ swing_count' = swing_count + 1
            /\ current_capture_buffer' = NewDeque
            /\ heap' = [heap EXCEPT ![NewDeque] = <<>>]
            /\ elapsed' = 0
            /\ pc' = "capture"
       ELSE /\ pc' = "check_repeat"
            /\ UNCHANGED <<swing_count, current_capture_buffer, heap, elapsed>>
    /\ UNCHANGED <<latches, replay_speed_factor, lsnVars, cap, window,
                   frame, last_capture_buffer, show_info, replay_list, cursor,
                   caller, ret, display>>

\* golf.py 287-308: one iteration of the capture loop. The device delivers
\* the next frame one frame period after the previous one.
CaptureFrame ==
    /\ pc = "capture"
    /\ UNCHANGED adjusted_delay
    /\ IF elapsed < REPLAY_DURATION_SECONDS
       THEN \/ /\ heap' = [heap EXCEPT ![current_capture_buffer] = Append(@, Scene)]
               /\ display' = [kind |-> "REC", frame |-> Scene]
               /\ elapsed' = elapsed + FramePeriod
               /\ \/ /\ exit_app' = TRUE
                     /\ pc' = "cap_done"
                  \/ /\ pc' = "capture"
                     /\ UNCHANGED exit_app
            \/ /\ pc' = "cap_done"
               /\ UNCHANGED <<heap, display, elapsed, exit_app>>
       ELSE /\ pc' = "cap_done"
            /\ UNCHANGED <<heap, display, elapsed, exit_app>>
    /\ UNCHANGED <<start_record, repeat_replay, toggle_info,
                   replay_speed_factor, lsnVars, cap, window, frame,
                   current_capture_buffer, last_capture_buffer, swing_count,
                   show_info, replay_list, cursor, caller, ret>>

\* the capture phase without the call of run_replay
CaptureDoneNoReplay ==
    /\ pc = "cap_done"
    /\ UNCHANGED adjusted_delay
    /\ IF Truthy(current_capture_buffer)
       THEN last_capture_buffer' = current_capture_buffer
       ELSE UNCHANGED last_capture_buffer
    /\ pc' = "clear_start"
    /\ UNCHANGED <<latches, replay_speed_factor, lsnVars, cap, window,
                   frame, heap, current_capture_buffer, swing_count, show_info,
                   elapsed, replay_list, cursor, caller, ret, display>>

\* golf.py 310-312
CaptureDone ==
    /\ pc = "cap_done"
    /\ UNCHANGED adjusted_delay
    /\ IF Truthy(current_capture_buffer)
       THEN /\ last_capture_buffer' = current_capture_buffer
            /\ caller' = "capture"
            /\ pc' = "rp_clear"
       ELSE /\ pc' = "clear_start"
            /\ UNCHANGED <<last_capture_buffer, caller>>
    /\ UNCHANGED <<latches, replay_speed_factor, lsnVars, cap, window,
                   frame, heap, current_capture_buffer, swing_count, show_info,
                   elapsed, replay_list, cursor, ret, display>>

\* golf.py 315
ClearStart ==
    /\ pc = "clear_start"
    /\ UNCHANGED adjusted_delay
    /\ start_record' = FALSE
    /\ replay_list' = <<>>
    /\ cursor' = 0
    /\ pc' = "draw"
    /\ UNCHANGED <<repeat_replay, exit_app, toggle_info, replay_speed_factor,
                   lsnVars, cap, window, frame, heap,
                   current_capture_buffer, last_capture_buffer, swing_count,
                   show_info, elapsed, caller, ret, display>>

\* the repeat branch without the test of last_capture_buffer
CheckRepeatNoTest ==
    /\ pc = "check_repeat"
    /\ UNCHANGED adjusted_delay
    /\ IF repeat_replay
       THEN pc' = "rp_clear" /\ caller' = "repeat"
       ELSE pc' = "draw" /\ UNCHANGED caller
    /\ UNCHANGED <<latches, replay_speed_factor, lsnVars, cap, window,
                   frame, heap, current_capture_buffer, last_capture_buffer,
                   swing_count, show_info, elapsed, replay_list, cursor, ret,
                   display>>

\* golf.py 317-322
CheckRepeat ==
    /\ pc = "check_repeat"
    /\ UNCHANGED adjusted_delay
    /\ IF repeat_replay
       THEN IF Truthy(last_capture_buffer)
            THEN pc' = "rp_clear" /\ caller' = "repeat"
            ELSE pc' = "clear_repeat" /\ UNCHANGED caller
       ELSE pc' = "draw" /\ UNCHANGED caller
    /\ UNCHANGED <<latches, replay_speed_factor, lsnVars, cap, window,
                   frame, heap, current_capture_buffer, last_capture_buffer,
                   swing_count, show_info, elapsed, replay_list, cursor, ret,
                   display>>

\* golf.py 323
ClearRepeat ==
    /\ pc = "clear_repeat"
    /\ UNCHANGED adjusted_delay
    /\ repeat_replay' = FALSE
    /\ replay_list' = <<>>
    /\ cursor' = 0
    /\ pc' = "draw"
    /\ UNCHANGED <<start_record, exit_app, toggle_info, replay_speed_factor,
                   lsnVars, cap, window, frame, heap,
                   current_capture_buffer, last_capture_buffer, swing_count,
                   show_info, elapsed, caller, ret, display>>

\* golf.py 326-362: the listening overlay, then the quit key
DrawListening ==
    /\ pc = "draw"
    /\ UNCHANGED adjusted_delay
    /\ display' = [kind |-> "LISTEN", frame |-> frame]
    /\ \/ exit_app' = TRUE
       \/ UNCHANGED exit_app
    /\ pc' = "loop_test"
    /\ UNCHANGED <<start_record, repeat_replay, toggle_info,
                   replay_speed_factor, lsnVars, cap, window, frame,
                   heap, current_capture_buffer, last_capture_buffer,
                   swing_count, show_info, elapsed, replay_list, cursor,
                   caller, ret>>

\* golf.py 364-368
Cleanup ==
    /\ pc = "cleanup"
    /\ UNCHANGED adjusted_delay
    /\ cap' = "released"
    /\ window' = "destroyed"
    /\ pc' = "done"
    /\ UNCHANGED <<latches, replay_speed_factor, lsnVars, frame, heap,
                   current_capture_buffer, last_capture_buffer, swing_count,
                   show_info, elapsed, replay_list, cursor, caller, ret,
                   display>>

-----------------------------------------------------------------------------
(* The controller thread: run_replay() *)

\* golf.py 186-189
ReplayEnter ==
    /\ pc = "rp_clear"
    /\ UNCHANGED adjusted_delay
    /\ start_record' = FALSE
    /\ replay_list' = heap[last_capture_buffer]
    /\ cursor' = 0
    /\ pc' = "rp_check_start"
    /\ UNCHANGED <<repeat_replay, exit_app, toggle_info, replay_speed_factor,
                   lsnVars, cap, window, frame, heap,
                   current_capture_buffer, last_capture_buffer, swing_count,
                   show_info, elapsed, caller, ret, display>>

\* the loop head without the test of start_record
ReplayCheckExitOnly ==
    /\ pc = "rp_check_start"
    /\ UNCHANGED adjusted_delay
    /\ IF cursor = Len(replay_list)
       THEN ret' = "True" /\ pc' = "rp_return"
       ELSE pc' = "rp_check_exit" /\ UNCHANGED ret
    /\ UNCHANGED <<latches, replay_speed_factor, lsnVars, cap, window,
                   frame, heap, current_capture_buffer, last_capture_buffer,
                   swing_count, show_info, elapsed, replay_list, cursor,
                   caller, display>>

\* golf.py 189-190: the next frame of the list, then the first operand of `or`;
\* the break at 192 and the end of the list both fall through to 219
ReplayCheckStart ==
    /\ pc = "rp_check_start"
    /\ UNCHANGED adjusted_delay
    /\ IF cursor = Len(replay_list) \/ start_record
       THEN ret' = "True" /\ pc' = "rp_return"
       ELSE pc' = "rp_check_exit" /\ UNCHANGED ret
    /\ UNCHANGED <<latches, replay_speed_factor, lsnVars, cap, window,
                   frame, heap, current_capture_buffer, last_capture_buffer,
                   swing_count, show_info, elapsed, replay_list, cursor,
                   caller, display>>

\* golf.py 190-192, 219: the second operand of `or`
ReplayCheckExit ==
    /\ pc = "rp_check_exit"
    /\ UNCHANGED adjusted_delay
    /\ IF exit_app
       THEN ret' = "True" /\ pc' = "rp_return"
       ELSE pc' = "rp_show" /\ UNCHANGED ret
    /\ UNCHANGED <<latches, replay_speed_factor, lsnVars, cap, window,
                   frame, heap, current_capture_buffer, last_capture_buffer,
                   swing_count, show_info, elapsed, replay_list, cursor,
                   caller, display>>

\* the delay computed from the speed factor the program starts with
ReplayShowFixedDelay ==
    /\ pc = "rp_show"
    /\ adjusted_delay' = InitialSpeedFactor
    /\ display' = [kind |-> "REPLAY", frame |-> replay_list[cursor + 1]]
    /\ cursor' = cursor + 1
    /\ pc' = "rp_key"
    /\ UNCHANGED <<latches, replay_speed_factor, lsnVars, cap, window,
                   frame, heap, current_capture_buffer, last_capture_buffer,
                   swing_count, show_info, elapsed, replay_list, caller, ret>>

\* golf.py 194-214: the delay is base_frame_delay times the speed factor as
\* line 209 reads it; base_frame_delay is the same for every frame
ReplayShow ==
    /\ pc = "rp_show"
    /\ adjusted_delay' = replay_speed_factor
    /\ display' = [kind |-> "REPLAY", frame |-> replay_list[cursor + 1]]
    /\ cursor' = cursor + 1
    /\ pc' = "rp_key"
    /\ UNCHANGED <<latches, replay_speed_factor, lsnVars, cap, window,
                   frame, heap, current_capture_buffer, last_capture_buffer,
                   swing_count, show_info, elapsed, replay_list, caller, ret>>

\* golf.py 216-218: the wait is over, with or without the quit key
ReplayKey ==
    /\ pc = "rp_key"
    /\ adjusted_delay' = NoDelay
    /\ \/ /\ exit_app' = TRUE
          /\ ret' = "False"
          /\ pc' = "rp_return"
       \/ /\ pc' = "rp_check_start"
          /\ UNCHANGED <<exit_app, ret>>
    /\ UNCHANGED <<start_record, repeat_replay, toggle_info,
                   replay_speed_factor, lsnVars, cap, window, frame,
                   heap, current_capture_buffer, last_capture_buffer,
                   swing_count, show_info, elapsed, replay_list, cursor,
                   caller, display>>

\* the return to golf.py 312 or 319; the result is dropped there. What the
\* call has presented (replay_list, cursor) is kept until the statement
\* after the call.
ReplayReturn ==
    /\ pc = "rp_return"
    /\ UNCHANGED adjusted_delay
    /\ pc' = IF caller = "capture" THEN "clear_start" ELSE "clear_repeat"
    /\ ret' = "none"
    /\ caller' = "none"
    /\ UNCHANGED <<latches, replay_speed_factor, lsnVars, cap, window,
                   frame, heap, current_capture_buffer, last_capture_buffer,
                   swing_count, show_info, elapsed, display, replay_list,
                   cursor>>

Controller ==
    \/ StartListener \/ OpenCamera \/ LoopTest \/ HandleToggle
    \/ CheckStart \/ CaptureFrame \/ CaptureDone
    \/ ClearStart \/ CheckRepeat \/ ClearRepeat \/ DrawListening
    \/ Cleanup
    \/ ReplayEnter \/ ReplayCheckStart \/ ReplayCheckExit \/ ReplayShow
    \/ ReplayKey \/ ReplayReturn

-----------------------------------------------------------------------------
(* The listener thread: voice_listener() *)

\* the thread ending the whole session when the model directory is missing
ListenerInitFatal ==
    /\ lpc = "init"
    /\ \/ lpc' = "poll" /\ UNCHANGED exit_app
       \/ lpc' = "no_model" /\ exit_app' = TRUE
    /\ UNCHANGED <<start_record, repeat_replay, toggle_info,
                   replay_speed_factor, last_heard_command, text, ctlVars>>

\* golf.py 111-119: without the model directory the thread returns at once
ListenerInit ==
    /\ lpc = "init"
    /\ \/ lpc' = "poll"
       \/ lpc' = "no_model"
    /\ UNCHANGED <<latches, replay_speed_factor, last_heard_command, text,
                   ctlVars>>

\* golf.py 121, 161-164
ListenerPoll ==
    /\ lpc = "poll"
    /\ lpc' = IF exit_app THEN "stopped" ELSE "recv"
    /\ UNCHANGED <<latches, replay_speed_factor, last_heard_command, text,
                   ctlVars>>

\* the listener flipping the toggle_info event instead of setting it
HearFlipsLatch(u, steps) ==
    \E cmd \in { Dispatch(Normalize(u)) } :
    /\ lpc = "recv"
    /\ cmd = "START_RECORD" => (start_record \/ swing_count < MaxSwings)
    /\ text' = u
    /\ last_heard_command' = IF u # <<>> THEN Sanitize(u) ELSE last_heard_command
    /\ exit_app' = (exit_app \/ cmd = "EXIT")
    /\ start_record' = (start_record \/ cmd = "START_RECORD")
    /\ repeat_replay' = (repeat_replay \/ cmd = "REPEAT_REPLAY")
    /\ toggle_info' = IF cmd = "TOGGLE_INFO" THEN ~toggle_info ELSE toggle_info
    /\ replay_speed_factor' =
          CASE cmd = "SPEED_DOWN" -> FMul125(replay_speed_factor)
            [] cmd = "SPEED_UP" -> FDiv125(replay_speed_factor)
            [] OTHER -> replay_speed_factor
    /\ SpeedInRange(replay_speed_factor', steps)
    /\ lpc' = "poll"
    /\ UNCHANGED ctlVars

\* the listener flipping show_info itself instead of setting toggle_info
HearWritesShowInfo(u, steps) ==
    \E cmd \in { Dispatch(Normalize(u)) } :
    /\ lpc = "recv"
    /\ cmd = "START_RECORD" => (start_record \/ swing_count < MaxSwings)
    /\ text' = u
    /\ last_heard_command' = IF u # <<>> THEN Sanitize(u) ELSE last_heard_command
    /\ exit_app' = (exit_app \/ cmd = "EXIT")
    /\ start_record' = (start_record \/ cmd = "START_RECORD")
    /\ repeat_replay' = (repeat_replay \/ cmd = "REPEAT_REPLAY")
    /\ show_info' = IF cmd = "TOGGLE_INFO" THEN ~show_info ELSE show_info
    /\ replay_speed_factor' =
          CASE cmd = "SPEED_DOWN" -> FMul125(replay_speed_factor)
            [] cmd = "SPEED_UP" -> FDiv125(replay_speed_factor)
            [] OTHER -> replay_speed_factor
    /\ SpeedInRange(replay_speed_factor', steps)
    /\ lpc' = "poll"
    /\ UNCHANGED <<toggle_info, pc, cap, window, frame, heap,
                   current_capture_buffer, last_capture_buffer, swing_count,
                   elapsed, replay_list, cursor, caller, ret, display,
                   adjusted_delay>>

\* golf.py 122-159: one recognized utterance u
Hear(u, steps) ==
    \E cmd \in { Dispatch(Normalize(u)) } :
    /\ lpc = "recv"
    /\ cmd = "START_RECORD" => (start_record \/ swing_count < MaxSwings)
    /\ text' = u
    /\ last_heard_command' = IF u # <<>> THEN Sanitize(u) ELSE last_heard_command
    /\ exit_app' = (exit_app \/ cmd = "EXIT")
    /\ start_record' = (start_record \/ cmd = "START_RECORD")
    /\ repeat_replay' = (repeat_replay \/ cmd = "REPEAT_REPLAY")
    /\ toggle_info' = (toggle_info \/ cmd = "TOGGLE_INFO")
    /\ replay_speed_factor' =
          CASE cmd = "SPEED_DOWN" -> FMul125(replay_speed_factor)
            [] cmd = "SPEED_UP" -> FDiv125(replay_speed_factor)
            [] OTHER -> replay_speed_factor
    /\ SpeedInRange(replay_speed_factor', steps)
    /\ lpc' = "poll"
    /\ UNCHANGED ctlVars

Listener == ListenerInit \/ ListenerPoll \/ \E u \in CommandWords : Hear(u, MainSpeedSteps)

-----------------------------------------------------------------------------
(* The program: both threads, interleaved at their accesses to shared_state *)

Next == Controller \/ Listener

Spec == Init /\ [][Next]_vars

-----------------------------------------------------------------------------
(* The listener alone, while the controller sits at the top of its loop    *)
(* (golf.py 266) with the camera open: every utterance it hears falls      *)
(* between two observations of the controller.                             *)

Started ==
    /\ start_record = FALSE
    /\ repeat_replay = FALSE
    /\ exit_app = FALSE
    /\ toggle_info = FALSE
    /\ replay_speed_factor = InitialSpeedFactor
    /\ last_heard_command = <<>>
    /\ pc = "loop_test"
    /\ cap = "open"
    /\ window = "open"
    /\ frame = NoFrame
    /\ heap = [r \in 1..2 |-> <<>>]
    /\ current_capture_buffer = 0
    /\ last_capture_buffer = 0
    /\ swing_count = 0
    /\ show_info = FALSE
    /\ elapsed = 0
    /\ replay_list = <<>>
    /\ cursor = 0
    /\ caller = "none"
    /\ ret = "none"
    /\ display = Blank
    /\ adjusted_delay = NoDelay
    /\ lpc = "poll"
    /\ text = <<>>

\* run_replay has put the first frame of a full capture on the window, at
\* the initial speed: the replay that follows the first capture, or that
\* capture repeated
FirstFrameShown ==
    /\ caller \in {"capture", "repeat"}
    /\ start_record = FALSE
    /\ repeat_replay = (caller = "repeat")
    /\ exit_app = FALSE
    /\ toggle_info = FALSE
    /\ replay_speed_factor = InitialSpeedFactor
    /\ text = (IF caller = "repeat" THEN REPEAT_TRIGGER_WORD ELSE TRIGGER_WORD)
    /\ last_heard_command = text
    /\ pc = "rp_key"
    /\ cap = "open"
    /\ window = "open"
    /\ frame = (IF caller = "repeat" THEN 1 ELSE 0)
    /\ heap = [r \in 1..2 |->
                 IF r = 1 THEN [i \in 1..NominalFrames |-> 1] ELSE <<>>]
    /\ current_capture_buffer = 1
    /\ last_capture_buffer = 1
    /\ swing_count = 1
    /\ show_info = FALSE
    /\ elapsed = NominalFrames * FramePeriod
    /\ replay_list = heap[1]
    /\ cursor = 1
    /\ ret = "none"
    /\ display = [kind |-> "REPLAY", frame |-> 1]
    /\ adjusted_delay = InitialSpeedFactor
    /\ lpc = "poll"

\* the rest of that replay, up to the statement after the call, while the
\* listener hears command words
ReplayNext ==
    \/ ReplayKey \/ ReplayCheckStart \/ ReplayCheckExit \/ ReplayShow
    \/ ReplayReturn \/ ClearStart \/ ClearRepeat
    \/ ListenerPoll
    \/ \E u \in CommandWords : Hear(u, MainSpeedSteps)

ReplaySpec == FirstFrameShown /\ [][ReplayNext]_vars

\* command words spoken alone, any number of times
ListenerNext == ListenerPoll \/ \E u \in CommandWords : Hear(u, MaxSpeedSteps)

ListenerSpec == Started /\ [][ListenerNext]_vars

\* the number of commands in effect that the controller has not consumed
Pending ==
    (IF start_record THEN 1 ELSE 0) + (IF repeat_replay THEN 1 ELSE 0)
      + (IF toggle_info THEN 1 ELSE 0)
      + (IF replay_speed_factor # InitialSpeedFactor THEN 1 ELSE 0)

\* at most one command by a word spoken alone, then one utterance of several
\* words
DispatchNext ==
    \/ ListenerPoll
    \/ \E u \in Utterances :
          /\ text \in CommandWords \cup { <<>> }
          /\ Pending <= 1
          /\ Hear(u, MainSpeedSteps)

DispatchSpec == Started /\ [][DispatchNext]_vars

-----------------------------------------------------------------------------
(* Vocabulary of the properties *)

\* a step of the listener thread
ListenerStep == lpc \in {"init", "poll", "recv"} /\ lpc' # lpc
\* the step that dispatches one utterance
HearStep == lpc = "recv" /\ lpc' = "poll"
\* a step of the controller thread
ControllerStep == pc' # pc \/ heap' # heap

\* the command of an utterance, as the listener dispatches it
Cmd(t) == Dispatch(Normalize(t))

\* the step appends a frame to a capture buffer
FrameAppended == \E r \in 1..2 : Len(heap'[r]) > Len(heap[r])
\* the step puts a frame on the window
FrameRendered ==
    \/ pc = "draw" /\ pc' # pc
    \/ pc = "rp_show" /\ pc' # pc
    \/ pc = "capture" /\ FrameAppended
\* the step acts on a latched command other than EXIT
CommandActed ==
    \/ pc = "toggle" /\ show_info' # show_info
    \/ pc = "check_start" /\ pc' = "capture"
    \/ pc = "check_repeat" /\ pc' \in {"rp_clear", "clear_repeat"}

\* the next double above x
FSucc(x) ==
    IF x[2] + 1 < Limb THEN <<x[1], x[2] + 1, x[3]>>
    ELSE IF x[1] + 1 < HiMax THEN <<x[1] + 1, 0, x[3]>>
    ELSE <<HiMin, 0, x[3] + 1>>
\* equal, or neighbours among the doubles
FClose(x, y) == x = y \/ FSucc(x) = y \/ FSucc(y) = x
\* a positive (normal) double
FPositive(x) == x[1] >= HiMin /\ x[1] < HiMax /\ x[2] >= 0 /\ x[2] < Limb

Kinds == {"EXIT", "START_RECORD", "REPEAT_REPLAY", "TOGGLE_INFO",
          "SPEED_DOWN", "SPEED_UP"}
\* spec.md 4.4: EXIT highest, then START_RECORD, REPEAT_REPLAY, TOGGLE_INFO,
\* SPEED_DOWN, SPEED_UP
Priority(k) ==
    CASE k = "EXIT" -> 1
      [] k = "START_RECORD" -> 2
      [] k = "REPEAT_REPLAY" -> 3
      [] k = "TOGGLE_INFO" -> 4
      [] k = "SPEED_DOWN" -> 5
      [] k = "SPEED_UP" -> 6
Phrase(k) ==
    CASE k = "EXIT" -> EXIT_WORD
      [] k = "START_RECORD" -> TRIGGER_WORD
      [] k = "REPEAT_REPLAY" -> REPEAT_TRIGGER_WORD
      [] k = "TOGGLE_INFO" -> INFO_TOGGLE_WORD
      [] k = "SPEED_DOWN" -> SPEED_DOWN_WORD
      [] k = "SPEED_UP" -> SPEED_UP_WORD
\* the kinds whose trigger phrase occurs in the normalized text t
Matching(t) == { k \in Kinds : IsSubstring(Phrase(k), t) }
\* the kind of highest priority among them
HighestOf(m) ==
    IF m = {} THEN "NONE"
    ELSE CHOOSE k \in m : \A j \in m : Priority(k) <= Priority(j)
Highest(t) == HighestOf(Matching(t))

-----------------------------------------------------------------------------
(* C1 *)

\* C1 (as claimed): once EXIT is latched, no step of the controller appends a
\* frame to a capture buffer, renders a frame or acts on another command.
C1_ExitStopsProcessing ==
    [][exit_app => ~(FrameAppended \/ FrameRendered \/ CommandActed)]_vars

-----------------------------------------------------------------------------
(* C2 *)

\* C2: a capture that ends with a non-empty buffer is followed by REPLAYING
\* and nothing else, REPLAYING is followed by LISTENING and nothing else,
\* CAPTURING is entered only from LISTENING on a latched START_RECORD, and a
\* replay during which neither START_RECORD nor EXIT is latched presents
\* every frame of the buffer.
C2_CaptureReplayListen ==
    /\ [][ /\ (Mode = "CAPTURING" /\ Mode' # "CAPTURING"
                 /\ Truthy(current_capture_buffer))
              => (Mode' = "REPLAYING" /\ caller' = "capture")
           /\ (Mode = "REPLAYING" /\ Mode' # "REPLAYING") => Mode' = "LISTENING"
           /\ (Mode # "CAPTURING" /\ Mode' = "CAPTURING")
              => (Mode = "LISTENING" /\ start_record)
         ]_vars
    /\ [](pc = "rp_return" /\ ~start_record /\ ~exit_app
             => ret = "True" /\ cursor = Len(replay_list))

\* a replay that followed a capture has presented the whole buffer
C2_Witness ==
    /\ pc = "rp_return"
    /\ caller = "capture"
    /\ ret = "True"
    /\ cursor = Len(replay_list)
    /\ cursor > 0
    /\ ~start_record
    /\ ~exit_app

-----------------------------------------------------------------------------
(* C3 *)

\* C3: when the capture phase ends with an empty buffer, the controller goes
\* straight back to LISTENING (golf.py 315), run_replay is not called, and
\* last_capture_buffer and the deque it refers to are as before.
C3_EmptyCaptureSkipsReplay ==
    [][(pc = "cap_done" /\ pc' # pc /\ Len(heap[current_capture_buffer]) = 0)
          => /\ pc' = "clear_start"
             /\ Mode' = "LISTENING"
             /\ last_capture_buffer' = last_capture_buffer
             /\ heap' = heap]_vars

\* back in LISTENING after a capture of zero frames, an earlier buffer kept
C3_Witness ==
    /\ pc = "clear_start"
    /\ current_capture_buffer # 0
    /\ Len(heap[current_capture_buffer]) = 0
    /\ last_capture_buffer # 0
    /\ last_capture_buffer # current_capture_buffer
    /\ Len(heap[last_capture_buffer]) > 0

-----------------------------------------------------------------------------
(* C4 *)

\* C4: REPEAT_REPLAY observed with no "last" buffer leads to the clearing of
\* the latch (golf.py 323) and on to the listening overlay; neither step
\* starts a replay or changes swing_count, replay_speed_factor, show_info or
\* last_capture_buffer.
C4_RepeatWithoutBuffer ==
    [][ /\ (pc = "check_repeat" /\ pc' # pc /\ repeat_replay
              /\ last_capture_buffer = 0)
           => /\ pc' = "clear_repeat"
              /\ UNCHANGED <<swing_count, replay_speed_factor, show_info,
                             last_capture_buffer, heap, replay_list>>
        /\ (pc = "clear_repeat" /\ pc' # pc /\ last_capture_buffer = 0)
           => /\ pc' = "draw"
              /\ Mode' = "LISTENING"
              /\ ~repeat_replay'
              /\ UNCHANGED <<swing_count, replay_speed_factor, show_info,
                             last_capture_buffer, heap, replay_list>>
      ]_vars

\* the repeat word was heard, its latch is cleared again, and there still is
\* no buffer
C4_Witness ==
    /\ pc = "draw"
    /\ Cmd(text) = "REPEAT_REPLAY"
    /\ ~repeat_replay
    /\ last_capture_buffer = 0
    /\ swing_count = 0

-----------------------------------------------------------------------------
(* C5 *)

\* C5: the loop head of run_replay that finds start_record set while a frame
\* of the list is still to be shown leaves the loop; that step and the
\* return render nothing, and the return leads to LISTENING.
C5_BargeInStopsReplay ==
    [][ /\ (pc = "rp_check_start" /\ pc' # pc /\ start_record
              /\ cursor < Len(replay_list))
           => (pc' = "rp_return" /\ ~FrameRendered /\ display' = display)
        /\ (pc = "rp_return" /\ pc' # pc)
           => (Mode' = "LISTENING" /\ ~FrameRendered /\ display' = display)
      ]_vars

\* a replay left on START_RECORD with a frame still to be shown
C5_Witness ==
    /\ pc = "rp_return"
    /\ start_record
    /\ ~exit_app
    /\ cursor > 0
    /\ cursor < Len(replay_list)

-----------------------------------------------------------------------------
(* C6 *)

\* C6 (as claimed): run_replay returns the "completed" result (True) only when
\* every frame of the list was presented.
C6_ResultTellsCompletion ==
    pc = "rp_return" /\ ret = "True" => cursor = Len(replay_list)

-----------------------------------------------------------------------------
(* C7 *)

\* C7: the dispatch of an utterance has the effect of exactly the command of
\* highest priority among those whose phrase occurs in the normalized text,
\* and of no command (nothing but text and last_heard_command changes) when
\* no phrase occurs in it.
C7_DispatchByPriority ==
    [][HearStep =>
          \E k \in { Highest(Normalize(text')) } :
          /\ exit_app' = (exit_app \/ k = "EXIT")
          /\ start_record' = (start_record \/ k = "START_RECORD")
          /\ repeat_replay' = (repeat_replay \/ k = "REPEAT_REPLAY")
          /\ toggle_info' = (toggle_info \/ k = "TOGGLE_INFO")
          /\ replay_speed_factor' =
                CASE k = "SPEED_DOWN" -> FMul125(replay_speed_factor)
                  [] k = "SPEED_UP" -> FDiv125(replay_speed_factor)
                  [] OTHER -> replay_speed_factor
          /\ UNCHANGED ctlVars]_vars

\* an utterance with the record and the repeat phrase has set start_record only
C7_Witness ==
    /\ lpc = "poll"
    /\ {"START_RECORD", "REPEAT_REPLAY"} \subseteq Matching(Normalize(text))
    /\ start_record
    /\ ~repeat_replay

-----------------------------------------------------------------------------
(* C8 *)

-----------------------------------------------------------------------------
(* C9 *)

-----------------------------------------------------------------------------
(* C10 *)

\* C10 (as claimed): SPEED_UP then SPEED_DOWN, and SPEED_DOWN then SPEED_UP,
\* give back the speed factor exactly, and the speed factor is positive.
C10_ExactInverse ==
    /\ FMul125(FDiv125(replay_speed_factor)) = replay_speed_factor
    /\ FDiv125(FMul125(replay_speed_factor)) = replay_speed_factor
    /\ FPositive(replay_speed_factor)

\* C10 (amended): SPEED_UP then SPEED_DOWN, and SPEED_DOWN then SPEED_UP, give
\* back the speed factor or a double next to it, and the speed factor is
\* positive.
C10_InverseUpToRounding ==
    /\ FClose(FMul125(FDiv125(replay_speed_factor)), replay_speed_factor)
    /\ FClose(FDiv125(FMul125(replay_speed_factor)), replay_speed_factor)
    /\ FPositive(replay_speed_factor)

\* six SPEED_UP then SPEED_DOWN: one unit in the last place above the factor
\* reached by five SPEED_UP
C10_Witness ==
    /\ Cmd(text) = "SPEED_DOWN"
    /\ replay_speed_factor = FSucc(Faster(InitialSpeedFactor, 5))

-----------------------------------------------------------------------------
(* C11 *)

\* C11 (as claimed): the buffer promoted to "last" has a length within one
\* frame of capture duration times source frame rate.
C11_PromotedLengthNearNominal ==
    last_capture_buffer # 0
       => /\ Len(heap[last_capture_buffer]) >= NominalFrames - 1
          /\ Len(heap[last_capture_buffer]) <= NominalFrames + 1

-----------------------------------------------------------------------------
(* C12 *)

\* C12: when main() has ended after it opened the capture device, the device
\* is released and the window destroyed; while the loop runs both are open.
C12_ReleasedOnEveryExit ==
    /\ (pc = "done" /\ cap # "closed")
          => (cap = "released" /\ window = "destroyed")
    /\ Mode \in {"LISTENING", "CAPTURING", "REPLAYING"}
          => (cap = "open" /\ window = "open")

\* main() has ended on a failed read (EXIT is not latched) after a swing was
\* captured, with the device released
C12_Witness ==
    /\ pc = "done"
    /\ ~exit_app
    /\ swing_count > 0
    /\ cap = "released"
    /\ window = "destroyed"

-----------------------------------------------------------------------------
(* C13 *)

\* C13 (as claimed): a tick that has passed the loop test with EXIT clear
\* does not end the loop, and the capture loop is not left before its
\* deadline except with the frame it has just appended (the quit key).
C13_ReadFailureSwallowed ==
    [][ /\ (pc = "loop_test" /\ ~exit_app) => pc' # "cleanup"
        /\ (pc = "capture" /\ pc' = "cap_done"
              /\ elapsed < REPLAY_DURATION_SECONDS) => FrameAppended
      ]_vars

-----------------------------------------------------------------------------
(* C14 *)

\* C14: once the listener has returned for want of its model, no latch other
\* than exit_app is set, the speed factor and the last-heard text are the
\* initial ones, and the controller is in LISTENING (or starting, or ended);
\* exit_app is set by the quit key of the listening loop only, every pass
\* through the listening overlay renders the frame just read, and the loop
\* test that finds exit_app set ends the loop.
C14_ListenerAloneStops ==
    /\ [](lpc = "no_model"
            => /\ ~start_record /\ ~repeat_replay /\ ~toggle_info
               /\ replay_speed_factor = InitialSpeedFactor
               /\ last_heard_command = <<>>
               /\ Mode \in {"STARTING", "LISTENING", "EXITED"})
    /\ [][lpc' = "no_model"
            => /\ lpc = "no_model" => ~ListenerStep
               /\ exit_app' # exit_app => pc = "draw"
               /\ (pc = "draw" /\ pc' # pc)
                     => /\ pc' = "loop_test"
                        /\ display' = [kind |-> "LISTEN", frame |-> frame]
               /\ (pc = "loop_test" /\ pc' # pc /\ exit_app)
                     => pc' = "cleanup"
         ]_vars

\* without the listener, main() has rendered the listening overlay and has
\* ended on the quit key
C14_Witness ==
    /\ lpc = "no_model"
    /\ pc = "done"
    /\ exit_app
    /\ display.kind = "LISTEN"
    /\ cap = "released"

-----------------------------------------------------------------------------
(* C15 *)

\* C15 (as claimed), while no buffer has been promoted: back in LISTENING
\* the swing counter is zero, the number of buffers promoted so far.
C15_CounterCountsPromotions ==
    (Mode = "LISTENING" /\ last_capture_buffer = 0) => swing_count = 0

-----------------------------------------------------------------------------
(* C16 *)

\* C16: no step changes the deque that last_capture_buffer refers to; a
\* capture starts with an empty deque that is not that one; no step of
\* run_replay changes a deque; last_capture_buffer changes only to the
\* non-empty deque just captured, no deque changing in that step.
C16_LastBufferImmutable ==
    [][ /\ last_capture_buffer # 0
            => heap'[last_capture_buffer] = heap[last_capture_buffer]
        /\ (pc = "check_start" /\ pc' = "capture")
            => /\ current_capture_buffer' # last_capture_buffer
               /\ heap'[current_capture_buffer'] = <<>>
        /\ Mode = "REPLAYING" => heap' = heap
        /\ last_capture_buffer' # last_capture_buffer
            => /\ last_capture_buffer' = current_capture_buffer
               /\ Len(heap'[last_capture_buffer']) > 0
               /\ heap' = heap
      ]_vars

\* a second capture has appended a frame while the "last" buffer of the
\* first one is still there
C16_Witness ==
    /\ pc = "capture"
    /\ last_capture_buffer # 0
    /\ current_capture_buffer # last_capture_buffer
    /\ Len(heap[current_capture_buffer]) > 0
    /\ Len(heap[last_capture_buffer]) = NominalFrames
    /\ heap[last_capture_buffer] # heap[current_capture_buffer]

-----------------------------------------------------------------------------
(* C17 *)

\* C17: the step of run_replay that puts a frame on the window computes
\* the delay of that frame from the speed factor as it is at that step.
C17_DelayFromCurrentSpeed ==
    [][(pc = "rp_show" /\ pc' # pc)
          => adjusted_delay' = replay_speed_factor']_vars

\* the first frame was shown at the initial speed; the second frame of the
\* same replay is on the window with the delay of the speed factor that a
\* speed command has set in between
C17_Witness ==
    /\ pc = "rp_key"
    /\ cursor = 2
    /\ Cmd(text) \in {"SPEED_DOWN", "SPEED_UP"}
    /\ adjusted_delay # InitialSpeedFactor
    /\ adjusted_delay = replay_speed_factor

-----------------------------------------------------------------------------
(* C18 *)

\* C18 (as claimed), for the latch set between the test of golf.py 281 and
\* the repeat replay: run_replay, entered from the repeat branch before any
\* EXIT, does not clear a START_RECORD latch (one that has neither started a
\* capture nor aborted a replay).
C18_StartRecordNotLost ==
    [][~(/\ pc = "rp_clear" /\ pc' # pc
         /\ caller = "repeat"
         /\ ~exit_app
         /\ start_record /\ ~start_record')]_vars

-----------------------------------------------------------------------------
(* C19 *)

\* the statement after the call of run_replay (golf.py 315 or 323), the
\* replay having been left on START_RECORD with frames still to show
ReturnFromAbortedReplay ==
    /\ pc \in {"clear_start", "clear_repeat"}
    /\ pc' = "draw"
    /\ cursor < Len(replay_list)
    /\ start_record
    /\ ~exit_app

\* C19 (as claimed): after a replay aborted by START_RECORD the latch is in
\* the same state when the controller is back at the listening overlay,
\* whichever branch called run_replay: cleared, as it is after the capture
\* branch (golf.py 315).
C19_SameLatchAfterAbort ==
    [][ReturnFromAbortedReplay => ~start_record']_vars

-----------------------------------------------------------------------------
(* C20 *)

\* C20 (as claimed): when main() has ended, exit_app is set.
C20_ExitLatchedAtEnd ==
    pc = "done" => exit_app

====
